---- MODULE Spec2Model ----
(***************************************************************************)
(* Option Strategy Simulator: the React component App (src/src/App.jsx)    *)
(* and the pricing primitive blackScholesCall (src/unnamed/part_001).      *)
(*                                                                         *)
(* Numbers.  JavaScript numbers are modelled as decimal fixed-point        *)
(* integers.  A "Fix6" value v stands for v / 10^6, a "Fix9" value for     *)
(* v / 10^9.  The nine-decimal constants of erf are exact in Fix9.  The    *)
(* JavaScript string "" (an emptied number input) is the value EmptyStr.   *)
(* Products, quotients and the library functions Math.log, Math.exp and    *)
(* Math.sqrt are computed digit by digit so that no intermediate result    *)
(* leaves the 32-bit integer range of the model checker.                   *)
(***************************************************************************)
EXTENDS Integers, Sequences, FiniteSets

VARIABLES config, options, sortedOptions, groupedResults, chartData,
          isIvCrush, pc, call, ret

vars == <<config, options, sortedOptions, groupedResults, chartData,
          isIvCrush, pc, call, ret>>

appVars == <<config, options, sortedOptions, groupedResults, chartData,
             isIvCrush, pc>>

(***************************************************************************)
(* Fixed-point arithmetic.  The arithmetic is written as functions: a      *)
(* function is applied to the value of its argument, so an operand is      *)
(* computed once however often the body uses it.                           *)
(***************************************************************************)
E3 == 1000
E6 == 1000000
E9 == 1000000000

\* The largest Fix6 magnitude; a product beyond it saturates, as a double
\* far outside the range of interest stays "very large".
FixMax == 2147000000

Abs(x) == IF x < 0 THEN -x ELSE x

Sgn(x) == IF x < 0 THEN -1 ELSE 1

Max(a, b) == IF a >= b THEN a ELSE b

\* floor(a * b / 10^6) for a, b >= 0, saturating at FixMax: the schoolbook
\* product in base 1000 with an unbounded top limb, a = aH*10^6 + aM*10^3 + aL.
MulU6[a \in Nat, b \in Nat] ==
    LET aH == a \div E6
        aM == (a \div E3) % E3
        aL == a % E3
        bH == b \div E6
        bM == (b \div E3) % E3
        bL == b % E3
        low == (aH * bL + aM * bM + aL * bH)
               + ((aM * bL + aL * bM) + (aL * bL) \div E3) \div E3
    IN  IF aH * bH + (aH * bM + aM * bH) \div E3 + low \div E6 >= 2146
        THEN FixMax
        ELSE aH * bH * E6 + (aH * bM + aM * bH) * E3 + low

\* floor(a * b / 10^9) for a, b >= 0 whose product is below 2^31 * 10^9.
MulU9[a \in Nat, b \in Nat] ==
    LET aH == a \div E6
        aM == (a \div E3) % E3
        aL == a % E3
        bH == b \div E6
        bM == (b \div E3) % E3
        bL == b % E3
    IN  aH * bH * E3 + (aH * bM + aM * bH)
        + ((aH * bL + aM * bM + aL * bH)
           + ((aM * bL + aL * bM) + (aL * bL) \div E3) \div E3) \div E3

\* a * b on Fix6 operands, truncated toward zero.
Mul6[a \in Int, b \in Int] == Sgn(a) * Sgn(b) * MulU6[Abs(a), Abs(b)]

\* a * b where one operand is Fix9 and the result has the scale of the other.
Mul9[a \in Int, b \in Int] == Sgn(a) * Sgn(b) * MulU9[Abs(a), Abs(b)]

\* The digit d with d * b <= 10 * r < (d + 1) * b, for 0 <= r < b: k * b <= 10 * r
\* is decided on b = 10 * (b \div 10) + b % 10 without forming 10 * r.
QuotDigit[r \in Nat, b \in Nat] ==
    Cardinality({k \in 1..9 : k * (b \div 10) + (k * (b % 10) + 9) \div 10 <= r})

\* 10 * r - d * b for the digit d = QuotDigit[r, b].
RemDigit[r \in Nat, b \in Nat, d \in Nat] ==
    10 * (r - d * (b \div 10)) - d * (b % 10)

RECURSIVE Pow10(_)
Pow10(n) == IF n = 0 THEN 1 ELSE 10 * Pow10(n - 1)

\* floor(r * 10^n / b) for 0 <= r < b <= FixMax, by decimal long division.
LongDiv[r \in Nat, b \in Nat, n \in Nat] ==
    IF n = 0 THEN 0
    ELSE IF r <= 214748364
         THEN ((10 * r) \div b) * Pow10(n - 1) + LongDiv[(10 * r) % b, b, n - 1]
         ELSE QuotDigit[r, b] * Pow10(n - 1)
              + LongDiv[RemDigit[r, b, QuotDigit[r, b]], b, n - 1]

\* floor(a * 10^n / b) for a >= 0, b > 0.
DivU[a \in Nat, b \in Nat, n \in Nat] ==
    (a \div b) * Pow10(n) + LongDiv[a % b, b, n]

\* a / b on Fix6 operands (b # 0), truncated toward zero.
Div6[a \in Int, b \in Int] == Sgn(a) * Sgn(b) * DivU[Abs(a), Abs(b), 6]

\* The integer square root, by bisection on the bits of the result.
ISqrt[n \in Nat, bit \in Nat, acc \in Nat] ==
    IF bit = 0 THEN acc
    ELSE IF acc + bit <= 46340 /\ (acc + bit) * (acc + bit) <= n
         THEN ISqrt[n, bit \div 2, acc + bit]
         ELSE ISqrt[n, bit \div 2, acc]

\* Math.sqrt on a Fix6 operand 0 <= x < 21.47, to four decimals.
Sqrt6[x \in Nat] == ISqrt[x * 100, 32768, 0] * 100

LN2 == 693147

\* e^f for 0 <= f < ln 2: the Taylor series in Horner form, from term n on.
ExpSeries[f \in Nat, n \in Nat] ==
    IF n > 10 THEN E6 ELSE E6 + Mul6[f, ExpSeries[f, n + 1]] \div n

RECURSIVE Pow2(_)
Pow2(k) == IF k = 0 THEN 1 ELSE 2 * Pow2(k - 1)

\* Math.exp on a Fix6 operand x < ln 2147: e^x = 2^k * e^f, x = k ln 2 + f.
\* Below e^-14 the result is under 10^-6 and is 0 in Fix6.
Exp6[x \in Int] ==
    IF x <= -14 * E6 THEN 0
    ELSE IF x >= 0
         THEN ExpSeries[x % LN2, 1] * Pow2(x \div LN2)
         ELSE ExpSeries[x % LN2, 1] \div Pow2(-(x \div LN2))

\* ln q by halving or doubling q into 1 <= m < 2, k counting the powers of 2:
\* ln q = k ln 2 + 2 atanh(z), z = (m - 1) / (m + 1).
AtanhSeries[w \in Nat, d \in Nat] ==
    IF d > 15 THEN E6 \div d ELSE E6 \div d + Mul6[w, AtanhSeries[w, d + 2]]

Atanh2[z \in Nat] == 2 * Mul6[z, AtanhSeries[Mul6[z, z], 1]]

LnNorm[q \in Nat, k \in Int] ==
    IF q >= 2 * E6 THEN LnNorm[q \div 2, k + 1]
    ELSE IF q < E6 THEN LnNorm[q * 2, k - 1]
    ELSE k * LN2 + Atanh2[Div6[q - E6, q + E6]]

\* Math.log on a Fix6 operand q > 0.
Ln6[q \in Nat] == LnNorm[q, 0]

(***************************************************************************)
(* The pricing primitive (src/unnamed/part_001)                            *)
(***************************************************************************)
A1 == 254829592
A2 == -284496736
A3 == 1421413741
A4 == -1453152027
A5 == 1061405429

\* p = 0.3275911, in units of 10^-7.
P7 == 3275911

\* t = 1.0 / (1.0 + p * x) for a Fix6 operand x >= 0, as Fix9.
ErfT[x \in Nat] == DivU[E6, E6 + MulU6[x, P7] \div 10, 9]

\* (((((a5 * t + a4) * t) + a3) * t + a2) * t + a1) * t, Fix9.
ErfPoly[t \in Nat] ==
    Mul9[Mul9[Mul9[Mul9[Mul9[A5, t] + A4, t] + A3, t] + A2, t] + A1, t]

\* y = 1.0 - (...) * t * Math.exp(-x * x) for x = Math.abs(x), Fix9.
ErfY[x \in Nat] == E9 - Mul9[ErfPoly[ErfT[x]], Exp6[-Mul6[x, x]] * E3]

\* A variant of ErfSign that saves no sign: the result is that of |x|.
ErfSignLost(x) == 1

\* The sign saved by erf: (x >= 0) ? 1 : -1.
ErfSign(x) == IF x >= 0 THEN 1 ELSE -1

\* erf on a Fix6 operand; the result is Fix9.
erf(x) == ErfSign(x) * ErfY[Abs(x)]

\* standardNormalCDF on a Fix6 operand.  The result v stands for v / (2 * 10^9):
\* the halving of (1.0 + erf(...)) / 2.0 is kept in the scale, so that it is exact.
standardNormalCDF(x) == E9 + erf(Div6[x, Sqrt6[2 * E6]])

\* S * Phi for a Fix6 operand S and a standardNormalCDF result.
MulCDF(S, phi) == Mul9[S, phi] \div 2

\* The branch blackScholesCall takes: `if (T <= 0)`.
BSBranch(T) == IF T <= 0 THEN "intrinsic" ELSE "formula"

\* d1 = (Math.log(S / K) + (r + 0.5 * sigma ** 2) * T) / (sigma * Math.sqrt(T))
BSd1[S \in Int, K \in Int, T \in Int, r \in Int, sigma \in Int] ==
    Div6[Ln6[Div6[S, K]] + Mul6[r + Mul6[E6 \div 2, Mul6[sigma, sigma]], T],
         Mul6[sigma, Sqrt6[T]]]

\* d2 = d1 - sigma * Math.sqrt(T)
BSd2[d1 \in Int, T \in Int, sigma \in Int] == d1 - Mul6[sigma, Sqrt6[T]]

\* callPrice = S * Phi(d1) - K * Math.exp(-r * T) * Phi(d2)
BSCallPrice[S \in Int, K \in Int, T \in Int, r \in Int, sigma \in Int, d1 \in Int] ==
    MulCDF(S, standardNormalCDF(d1))
    - MulCDF(Mul6[K, Exp6[-Mul6[r, T]]], standardNormalCDF(BSd2[d1, T, sigma]))

\* A variant of blackScholesCall whose early return is S - K, without the floor.
blackScholesCallNoFloor(S, K, T, r, sigma) ==
    IF BSBranch(T) = "intrinsic" THEN S - K
    ELSE BSCallPrice[S, K, T, r, sigma, BSd1[S, K, T, r, sigma]]

\* blackScholesCall on Fix6 operands; the result is Fix6.
blackScholesCall(S, K, T, r, sigma) ==
    IF BSBranch(T) = "intrinsic" THEN Max(0, S - K)
    ELSE BSCallPrice[S, K, T, r, sigma, BSd1[S, K, T, r, sigma]]

(***************************************************************************)
(* JavaScript values of the component (src/src/App.jsx)                    *)
(***************************************************************************)
\* F(v) with v computed once: a `const` of the code, bound to its value.
Const(v, F(_)) == CHOOSE y \in {F(x) : x \in {v}} : TRUE

\* The string "" held by an emptied number input.  No number of the model
\* has this value.
EmptyStr == -2147483647

\* The truthiness of a number or "": 0 and "" are falsy.
Truthy(v) == v # EmptyStr /\ v # 0

\* The numeric coercion of a number or "": Number("") is 0.
ToNumber(v) == IF v = EmptyStr THEN 0 ELSE v

DigitVal(c) ==
    CASE c = "0" -> 0 [] c = "1" -> 1 [] c = "2" -> 2 [] c = "3" -> 3
      [] c = "4" -> 4 [] c = "5" -> 5 [] c = "6" -> 6 [] c = "7" -> 7
      [] c = "8" -> 8 [] c = "9" -> 9

\* The index of the first "." of a text, or Len + 1 when it has none.
RECURSIVE DotAt(_, _)
DotAt(text, i) ==
    IF i > Len(text) \/ text[i] = "." THEN i ELSE DotAt(text, i + 1)

\* The value of the digits text[i..j] read as an integer.
RECURSIVE DigitsVal(_, _, _)
DigitsVal(text, i, j) ==
    IF j < i THEN 0 ELSE DigitsVal(text, i, j - 1) * 10 + DigitVal(text[j])

\* The value of the digits text[i..] read as a decimal fraction with `unit`
\* the weight of the digit before text[i]; digits beyond 10^-6 are dropped.
RECURSIVE FractionVal(_, _, _)
FractionVal(text, i, unit) ==
    IF i > Len(text) \/ unit < 10 THEN 0
    ELSE DigitVal(text[i]) * (unit \div 10) + FractionVal(text, i + 1, unit \div 10)

\* parseFloat of a decimal literal [-]digits[.digits], as Fix6.
parseFloat(text) ==
    LET neg == Len(text) > 0 /\ text[1] = "-"
        first == IF neg THEN 2 ELSE 1
        dot == DotAt(text, first)
        mag == DigitsVal(text, first, dot - 1) * E6 + FractionVal(text, dot + 1, E6)
    IN  IF neg THEN -mag ELSE mag

DEFAULT_CONFIG ==
    [CURRENT_PRICE |-> 340 * E6, TARGET_PRICE |-> 360 * E6,
     RISK_FREE_RATE |-> 45000, DAYS_TO_EXPIRY |-> 365 * E6]

DEFAULT_OPTIONS ==
    << [id |-> 1, type |-> "Deep ITM Call", strike |-> 270 * E6, ask |-> 126750000,
        iv |-> 684500, target_iv |-> EmptyStr, delta |-> 774500, gamma |-> 1300,
        theta |-> -110200],
       [id |-> 2, type |-> "ATM Call", strike |-> 340 * E6, ask |-> 98770000,
        iv |-> 673700, target_iv |-> EmptyStr, delta |-> 660800, gamma |-> 1600,
        theta |-> -128800],
       [id |-> 3, type |-> "Deep OTM Call", strike |-> 420 * E6, ask |-> 71700000,
        iv |-> 673600, target_iv |-> EmptyStr, delta |-> 540900, gamma |-> 1700,
        theta |-> -137000] >>

\* A variant of InsertByStrike that puts x before the elements of equal strike.
RECURSIVE InsertBeforeEqual(_, _)
InsertBeforeEqual(sorted, x) ==
    IF sorted = << >> THEN <<x>>
    ELSE IF ToNumber(x.strike) - ToNumber(Head(sorted).strike) <= 0
         THEN <<x>> \o sorted
         ELSE <<Head(sorted)>> \o InsertBeforeEqual(Tail(sorted), x)

\* [...options].sort((a, b) => a.strike - b.strike): insert x into a sorted
\* sequence after every element it does not precede (the sort is stable).
RECURSIVE InsertByStrike(_, _)
InsertByStrike(sorted, x) ==
    IF sorted = << >> THEN <<x>>
    ELSE IF ToNumber(x.strike) - ToNumber(Head(sorted).strike) < 0
         THEN <<x>> \o sorted
         ELSE <<Head(sorted)>> \o InsertByStrike(Tail(sorted), x)

RECURSIVE SortByStrike(_)
SortByStrike(opts) ==
    IF opts = << >> THEN << >>
    ELSE InsertByStrike(SortByStrike(SubSeq(opts, 1, Len(opts) - 1)), opts[Len(opts)])

\* Number.prototype.toFixed(2) of a Fix6 number: the sign and the hundredths of
\* the decimal string, rounded half away from zero ("-0.00" keeps its sign).
toFixed2(x) == Const(x, LAMBDA v : [neg |-> v < 0, cents |-> (Abs(v) + 5000) \div 10000])

\* A variant of SeriesKey that leaves out the label.
SeriesKeyByStrike(opt) == <<"", opt.strike>>

\* The template string `${opt.type} ($${opt.strike})`.
SeriesKey(opt) == <<opt.type, opt.strike>>

\* The template string `Day ${day}`.
DayLabel(day) == <<"Day", day>>

\* The index of the field `key` of a JavaScript object, held as the sequence
\* of its [key, value] fields in insertion order; 0 when it has none.
RECURSIVE FieldAt(_, _, _)
FieldAt(obj, key, i) ==
    IF i > Len(obj) THEN 0
    ELSE IF obj[i].key = key THEN i ELSE FieldAt(obj, key, i + 1)

\* obj[key] = val: an existing field is overwritten in place, a new one is
\* appended.
SetField(obj, key, val) ==
    IF FieldAt(obj, key, 1) = 0 THEN Append(obj, [key |-> key, value |-> val])
    ELSE [obj EXCEPT ![FieldAt(obj, key, 1)].value = val]

(***************************************************************************)
(* calculateProjections                                                    *)
(***************************************************************************)
\* sortedOptions.some(opt => opt.target_iv && opt.target_iv < opt.iv - 0.1)
CrushDetected(sorted) ==
    \E i \in 1..Len(sorted) :
        /\ Truthy(sorted[i].target_iv)
        /\ ToNumber(sorted[i].target_iv) < ToNumber(sorted[i].iv) - 100000

ScenarioLadder == <<30, 60, 90, 120, 150, 180, 210, 240, 270, 300, 330, 360>>

\* A variant of KeepScenario that drops the offset equal to daysToExpiry.
KeepScenarioStrict(cfg, day) == day * E6 < cfg.DAYS_TO_EXPIRY

KeepScenario(cfg, day) == day * E6 <= cfg.DAYS_TO_EXPIRY

\* [30, ..., 360].filter(day => day <= config.DAYS_TO_EXPIRY)
RECURSIVE FilterScenarios(_, _)
FilterScenarios(cfg, days) ==
    IF days = << >> THEN << >>
    ELSE IF KeepScenario(cfg, Head(days))
         THEN <<Head(days)>> \o FilterScenarios(cfg, Tail(days))
         ELSE FilterScenarios(cfg, Tail(days))

DaysRemaining(cfg, day) == Max(cfg.DAYS_TO_EXPIRY - day * E6, 0)

\* A variant of YearsRemaining without the floor of 0.0001.
YearsRemainingNoFloor(cfg, day) == Div6[DaysRemaining(cfg, day), 365 * E6]

YearsRemaining(cfg, day) == Max(Div6[DaysRemaining(cfg, day), 365 * E6], 100)

\* A variant of SimulatedPrice that prices at the current price.
SimulatedPriceCurrent(cfg) == cfg.CURRENT_PRICE

SimulatedPrice(cfg) == cfg.TARGET_PRICE

\* const targetIv = opt.target_iv || opt.iv
TargetIv(opt) == IF Truthy(opt.target_iv) THEN opt.target_iv ELSE opt.iv

EstPrice(cfg, day, opt) ==
    blackScholesCall(SimulatedPrice(cfg), opt.strike, YearsRemaining(cfg, day),
                     cfg.RISK_FREE_RATE, TargetIv(opt))

\* The call blackScholesCall(simulatedPrice, opt.strike, yearsRemaining,
\* config.RISK_FREE_RATE, targetIv) made for one contract at one offset: its
\* arguments, the daysRemaining its time was computed from and the branch of
\* the primitive it takes.
PricingCall(cfg, day, opt) ==
    [fn |-> "blackScholesCall", day |-> day,
     daysRemaining |-> DaysRemaining(cfg, day),
     S |-> SimulatedPrice(cfg), K |-> opt.strike, T |-> YearsRemaining(cfg, day),
     r |-> cfg.RISK_FREE_RATE, sigma |-> TargetIv(opt),
     branch |-> BSBranch(YearsRemaining(cfg, day))]

\* The calls of the primitive made by sortedOptions.forEach from index i on.
RECURSIVE PricingCallsOfDay(_, _, _, _)
PricingCallsOfDay(cfg, day, sorted, i) ==
    IF i > Len(sorted) THEN << >>
    ELSE <<PricingCall(cfg, day, sorted[i])>>
         \o PricingCallsOfDay(cfg, day, sorted, i + 1)

\* The calls of the primitive made by scenarios.forEach from index i on, in
\* the order they are made.
RECURSIVE PricingCalls(_, _, _, _)
PricingCalls(cfg, sorted, scenarios, i) ==
    IF i > Len(scenarios) THEN << >>
    ELSE PricingCallsOfDay(cfg, scenarios[i], sorted, 1)
         \o PricingCalls(cfg, sorted, scenarios, i + 1)

\* const profit = estPrice - cost
Profit(estPrice, cost) == estPrice - ToNumber(cost)

\* A variant of Roi that leaves out the factor 100.
RoiFraction(estPrice, cost) ==
    IF ToNumber(cost) > 0 THEN Div6[estPrice - ToNumber(cost), cost] ELSE 0

\* const roi = cost > 0 ? (profit / cost) * 100 : 0
Roi(estPrice, cost) ==
    IF ToNumber(cost) > 0 THEN Div6[Profit(estPrice, cost), cost] * 100 ELSE 0

\* The body of sortedOptions.forEach for one contract: the chart key and the
\* detail record pushed on dayResult.details.
OptionResult(cfg, day, opt) ==
    Const(EstPrice(cfg, day, opt), LAMBDA estPrice :
        [key |-> SeriesKey(opt),
         detail |-> [type |-> opt.type, strike |-> opt.strike,
                     roi |-> toFixed2(Roi(estPrice, opt.ask)),
                     profit |-> toFixed2(Profit(estPrice, opt.ask))]])

\* sortedOptions.forEach from index i on: the results in iteration order.
RECURSIVE ForEachOption(_, _, _, _)
ForEachOption(cfg, day, sorted, i) ==
    IF i > Len(sorted) THEN << >>
    ELSE <<OptionResult(cfg, day, sorted[i])>> \o ForEachOption(cfg, day, sorted, i + 1)

\* chartPoint[key] = roi.toFixed(2) for the results from index i on.
RECURSIVE AssignSeries(_, _, _)
AssignSeries(series, results, i) ==
    IF i > Len(results) THEN series
    ELSE AssignSeries(SetField(series, results[i].key, results[i].detail.roi),
                      results, i + 1)

\* dayResult.details.push(...) for the results from index i on.
RECURSIVE PushDetails(_, _)
PushDetails(results, i) ==
    IF i > Len(results) THEN << >>
    ELSE <<results[i].detail>> \o PushDetails(results, i + 1)

\* The body of scenarios.forEach for one day: the chart point and the table row.
DayCalc(cfg, sorted, day) ==
    Const(ForEachOption(cfg, day, sorted, 1), LAMBDA perOption :
        [chartPoint |-> [name |-> DayLabel(day), price |-> SimulatedPrice(cfg),
                         series |-> AssignSeries(<< >>, perOption, 1)],
         dayResult |-> [day |-> DayLabel(day),
                        details |-> PushDetails(perOption, 1)]])

\* scenarios.forEach from index i on.
RECURSIVE ForEachScenario(_, _, _, _)
ForEachScenario(cfg, sorted, scenarios, i) ==
    IF i > Len(scenarios) THEN << >>
    ELSE <<DayCalc(cfg, sorted, scenarios[i])>>
         \o ForEachScenario(cfg, sorted, scenarios, i + 1)

RECURSIVE ChartPoints(_, _)
ChartPoints(calc, i) ==
    IF i > Len(calc) THEN << >>
    ELSE <<calc[i].chartPoint>> \o ChartPoints(calc, i + 1)

RECURSIVE GroupedData(_, _)
GroupedData(calc, i) ==
    IF i > Len(calc) THEN << >>
    ELSE <<calc[i].dayResult>> \o GroupedData(calc, i + 1)

\* What calculateProjections passes to setIsIvCrush, setChartData and
\* setGroupedResults.
calculateProjections(cfg, sorted) ==
    Const(ForEachScenario(cfg, sorted, FilterScenarios(cfg, ScenarioLadder), 1),
          LAMBDA calc :
              [crushDetected |-> CrushDetected(sorted),
               chartPoints |-> ChartPoints(calc, 1),
               groupedData |-> GroupedData(calc, 1)])

(***************************************************************************)
(* The component: state, event handlers, render and the simulation effect  *)
(***************************************************************************)
\* What the user types: <<name, text>> for the four config inputs and
\* <<id, field, text>> for the contract inputs, a text being the sequence of
\* its characters.  Config inputs and strike, iv inputs are non-empty positive
\* decimals.
ConfigInputs ==
    { <<"CURRENT_PRICE", <<"3", "5", "0">>>>,
      <<"TARGET_PRICE", <<"3", "6", "0">>>>,
      <<"RISK_FREE_RATE", <<"0", ".", "0", "4", "5">>>>,
      <<"DAYS_TO_EXPIRY", <<"1", "0", "0">>>>,
      <<"DAYS_TO_EXPIRY", <<"2", "0">>>>,
      <<"DAYS_TO_EXPIRY", <<"3", "0">>>> }

OptionInputs ==
    { <<1, "strike", <<"3", "4", "0">>>>,
      <<1, "strike", <<"5", "0", "0">>>>,
      <<2, "ask", <<"0">>>>,
      <<2, "ask", << >>>>,
      <<3, "target_iv", <<"0">>>>,
      <<3, "target_iv", <<"0", ".", "4", "5">>>>,
      <<3, "target_iv", <<"0", ".", "6">>>>,
      <<3, "target_iv", << >>>> }

NoCall == [fn |-> "none"]

Init ==
    /\ config = DEFAULT_CONFIG
    /\ options = DEFAULT_OPTIONS
    /\ sortedOptions = << >>
    /\ groupedResults = << >>
    /\ chartData = << >>
    /\ isIvCrush = FALSE
    /\ pc = "render"
    /\ call = NoCall
    /\ ret = NoCall

\* setConfig(prev => ({ ...prev, [name]: parseFloat(value) }))
handleConfigChange(name, value) ==
    /\ pc = "idle"
    /\ config' = [config EXCEPT ![name] = parseFloat(value)]
    /\ pc' = "render"
    /\ UNCHANGED <<options, sortedOptions, groupedResults, chartData, isIvCrush,
                   call, ret>>

\* { ...opt, [field]: value === "" ? "" : parseFloat(value) }
EditedOption(opt, field, value) ==
    [opt EXCEPT ![field] = IF value = << >> THEN EmptyStr ELSE parseFloat(value)]

\* A variant of handleOptionChange without the test of the id: the edit is
\* applied to every contract.
handleOptionChangeAll(id, field, value) ==
    /\ pc = "idle"
    /\ options' = [i \in 1..Len(options) |->
                     EditedOption(options[i], field, value)]
    /\ pc' = "render"
    /\ UNCHANGED <<config, sortedOptions, groupedResults, chartData, isIvCrush,
                   call, ret>>

\* setOptions(prev => prev.map(opt => opt.id === id ? {...} : opt))
handleOptionChange(id, field, value) ==
    /\ pc = "idle"
    /\ options' = [i \in 1..Len(options) |->
                     IF options[i].id = id
                     THEN EditedOption(options[i], field, value)
                     ELSE options[i]]
    /\ pc' = "render"
    /\ UNCHANGED <<config, sortedOptions, groupedResults, chartData, isIvCrush,
                   call, ret>>

\* A variant of Render whose memo is computed on the first render only.
RenderKeepsMemo ==
    /\ pc = "render"
    /\ sortedOptions' = IF sortedOptions = << >> THEN SortByStrike(options)
                        ELSE sortedOptions
    /\ pc' = "effect"
    /\ UNCHANGED <<config, options, groupedResults, chartData, isIvCrush,
                   call, ret>>

\* A render after a state change: useMemo yields the sorted copy of options
\* (when only config changed it returns the kept copy, which has this value),
\* and the effect, whose dependencies config or sortedOptions changed, is
\* scheduled.
Render ==
    /\ pc = "render"
    /\ sortedOptions' = SortByStrike(options)
    /\ pc' = "effect"
    /\ UNCHANGED <<config, options, groupedResults, chartData, isIvCrush,
                   call, ret>>

\* The simulation effect: calculateProjections() and the re-render its three
\* state updates cause, which changes neither dependency of the effect.  call
\* records the calls of the pricing primitive the run made.
RunEffect ==
    /\ pc = "effect"
    /\ \E p \in {calculateProjections(config, sortedOptions)} :
           /\ isIvCrush' = p.crushDetected
           /\ chartData' = p.chartPoints
           /\ groupedResults' = p.groupedData
    /\ call' = [fn |-> "calculateProjections",
                pricing |-> PricingCalls(config, sortedOptions,
                                FilterScenarios(config, ScenarioLadder), 1)]
    /\ pc' = "idle"
    /\ UNCHANGED <<config, options, sortedOptions, ret>>

Next ==
    \/ \E in \in ConfigInputs : handleConfigChange(in[1], in[2])
    \/ \E in \in OptionInputs : handleOptionChange(in[1], in[2], in[3])
    \/ Render
    \/ RunEffect

Spec == Init /\ [][Next]_vars

(***************************************************************************)
(* The pricing primitive called on its own: blackScholesCall is exported,  *)
(* so a caller may pass any numbers.  call holds the arguments of the last *)
(* call, ret its result and the branch it took.                            *)
(***************************************************************************)
MaxPriceStep == 4

\* Spots and strikes: 90, 180, ...
PriceInputs == {k * 90 * E6 : k \in 1..MaxPriceStep}

\* Years to expiry: negative, zero, the projection's floor 0.0001, half a year.
TimeInputs == {-E6, 0, 100, E6 \div 2}

RateInputs == {0, 45000}

\* Volatilities.  With T > 0 the volatility 0 makes d1 a division by zero
\* (+-Infinity or NaN in JavaScript), which the fixed-point numbers cannot
\* hold; it is passed only where T <= 0.
SigmaInputs(T) == IF T <= 0 THEN {0, 673700} ELSE {673700}

InitBS ==
    /\ config = DEFAULT_CONFIG
    /\ options = DEFAULT_OPTIONS
    /\ sortedOptions = << >>
    /\ groupedResults = << >>
    /\ chartData = << >>
    /\ isIvCrush = FALSE
    /\ pc = "pricing"
    /\ call = NoCall
    /\ ret = NoCall

\* One call blackScholesCall(S, K, T, r, sigma) and its return.
CallBlackScholes(S, K, T, r, sigma) ==
    /\ pc = "pricing"
    /\ call' = [fn |-> "blackScholesCall",
                S |-> S, K |-> K, T |-> T, r |-> r, sigma |-> sigma]
    /\ ret' = [value |-> blackScholesCall(S, K, T, r, sigma),
               branch |-> BSBranch(T)]
    /\ UNCHANGED appVars

NextBS ==
    \E S \in PriceInputs, K \in PriceInputs, T \in TimeInputs, r \in RateInputs :
        \E sigma \in SigmaInputs(T) : CallBlackScholes(S, K, T, r, sigma)

SpecBS == InitBS /\ [][NextBS]_vars

(***************************************************************************)
(* erf and standardNormalCDF called on their own, on a ladder of operands  *)
(* around zero.  ret holds the result at x and, for erf, the result at -x. *)
(***************************************************************************)
MaxErfStep == 40

\* Operands: multiples of 0.05 between -MaxErfStep * 0.05 and MaxErfStep * 0.05.
ErfInputs == {k * (E6 \div 20) : k \in -MaxErfStep..MaxErfStep}

InitErf ==
    /\ config = DEFAULT_CONFIG
    /\ options = DEFAULT_OPTIONS
    /\ sortedOptions = << >>
    /\ groupedResults = << >>
    /\ chartData = << >>
    /\ isIvCrush = FALSE
    /\ pc = "erf"
    /\ call = NoCall
    /\ ret = NoCall

\* The calls erf(x) and erf(-x) and their returns.
CallErf(x) ==
    /\ pc = "erf"
    /\ call' = [fn |-> "erf", x |-> x]
    /\ ret' = [value |-> erf(x), negated |-> erf(-x)]
    /\ UNCHANGED appVars

\* One call standardNormalCDF(x) and its return.
CallCDF(x) ==
    /\ pc = "erf"
    /\ call' = [fn |-> "standardNormalCDF", x |-> x]
    /\ ret' = [value |-> standardNormalCDF(x)]
    /\ UNCHANGED appVars

NextErf ==
    \/ \E x \in ErfInputs : CallErf(x)
    \/ \E x \in ErfInputs : CallCDF(x)

SpecErf == InitErf /\ [][NextErf]_vars

(***************************************************************************)
(* Properties of the projection, stated on the derived state once the      *)
(* effect has run (pc = "idle").                                           *)
(***************************************************************************)
\* The offset a label `Day ${day}` names.
OffsetOf(label) == label[2]

\* The position of the contract of type t in the stored list.
StoredAt(t) == CHOOSE i \in 1..Len(options) : options[i].type = t

\* The contract of type t in the stored list.
ContractOf(t) == options[StoredAt(t)]

\* The offsets of {30, 60, ..., 360} that are at most daysToExpiry.
RetainedOffsets == {d \in {30 * k : k \in 1..12} : d * E6 <= config.DAYS_TO_EXPIRY}

\* C1: the chart series and the grouped table hold exactly one record per
\* offset d of {30, ..., 360} with d <= daysToExpiry, in ascending offset order
\* and labelled with that offset, and no other record.
C1_OneRecordPerRetainedOffset ==
    pc = "idle" =>
        /\ Len(chartData) = Cardinality(RetainedOffsets)
        /\ Len(groupedResults) = Cardinality(RetainedOffsets)
        /\ \A i \in 1..Len(chartData) :
              /\ chartData[i].name[1] = "Day"
              /\ OffsetOf(chartData[i].name) \in RetainedOffsets
              /\ groupedResults[i].day = chartData[i].name
              /\ i > 1 => OffsetOf(chartData[i - 1].name) < OffsetOf(chartData[i].name)

\* C1 witness: daysToExpiry = 100 has been projected to the offsets 30, 60, 90.
C1_Witness ==
    /\ pc = "idle"
    /\ config.DAYS_TO_EXPIRY = 100 * E6
    /\ Len(groupedResults) = 3
    /\ [i \in 1..3 |-> OffsetOf(chartData[i].name)] = <<30, 60, 90>>

\* A sequence of [type, strike] entries is in ascending strike order, entries
\* of equal strike in the order their contracts have in the stored list.
StrikeOrdered(entries) ==
    \A i, j \in 1..Len(entries) :
        i < j =>
            /\ entries[i].strike <= entries[j].strike
            /\ entries[i].strike = entries[j].strike
                  => StoredAt(entries[i].type) < StoredAt(entries[j].type)

\* The [type, strike] entries of a chart point's per-contract fields, in the
\* order of the fields.
SeriesEntries(point) ==
    [k \in 1..Len(point.series) |->
        [type |-> point.series[k].key[1], strike |-> point.series[k].key[2]]]

\* C2: at every offset the contracts appear in ascending strike order in the
\* chart point's fields and in the details list, and contracts of equal strike
\* keep their stored relative order.
C2_AscendingStableStrikeOrder ==
    pc = "idle" =>
        \A i \in 1..Len(groupedResults) :
            /\ StrikeOrdered(groupedResults[i].details)
            /\ StrikeOrdered(SeriesEntries(chartData[i]))

\* C2 witness: a list stored out of strike order has been projected.
C2_Witness ==
    /\ pc = "idle"
    /\ Len(groupedResults) > 0
    /\ options[1].strike > options[2].strike
    /\ [j \in 1..3 |-> groupedResults[1].details[j].strike]
          = <<340 * E6, 420 * E6, 500 * E6>>

\* roi as the claim gives it, on the numbers of the estimated price and of the
\* premium paid.
RoiClaimed(estimatedPrice, premiumPaid) ==
    IF premiumPaid > 0
    THEN Div6[estimatedPrice - premiumPaid, premiumPaid] * 100
    ELSE 0

ZeroString == [neg |-> FALSE, cents |-> 0]

\* The value of the chart point's field for the contract of a detail.
FieldOf(point, detail) ==
    point.series[CHOOSE k \in 1..Len(point.series) :
                    point.series[k].key = <<detail.type, detail.strike>>].value

\* C3: for every contract at every offset, roi is
\* (estimatedPrice - premiumPaid) / premiumPaid * 100 when premiumPaid > 0 and 0
\* otherwise, in the table and in the chart, and profit is
\* estimatedPrice - premiumPaid; a premium of 0 gives the roi 0.00.
C3_RoiGuardedByPremium ==
    pc = "idle" =>
        \A i \in 1..Len(groupedResults) :
            \A j \in 1..Len(groupedResults[i].details) :
                \A d \in {groupedResults[i].details[j]} :
                \A est \in {EstPrice(config, OffsetOf(groupedResults[i].day),
                                     ContractOf(d.type))} :
                \A premiumPaid \in {ToNumber(ContractOf(d.type).ask)} :
                    /\ d.roi = toFixed2(RoiClaimed(est, premiumPaid))
                    /\ FieldOf(chartData[i], d) = d.roi
                    /\ d.profit = toFixed2(est - premiumPaid)
                    /\ premiumPaid = 0 => d.roi = ZeroString

\* C3 witness: a contract with premium 0 has been projected: its roi is 0.00
\* and its profit is the estimated price.
C3_Witness ==
    /\ pc = "idle"
    /\ Len(groupedResults) > 0
    /\ \E j \in 1..Len(groupedResults[1].details) :
          /\ ContractOf(groupedResults[1].details[j].type).ask = 0
          /\ groupedResults[1].details[j].roi = ZeroString
          /\ groupedResults[1].details[j].profit.cents > 0

\* C4 (as claimed): the volatility priced is targetImpliedVolatility whenever
\* that field is set, 0 included, and impliedVolatility only when it is "".
C4_TargetIvUsedWheneverSet ==
    \A i \in 1..Len(options) :
        TargetIv(options[i]) = IF options[i].target_iv # EmptyStr
                               THEN options[i].target_iv
                               ELSE options[i].iv

\* C5 (as claimed): the flag is true iff some contract has a target IV set
\* (not "") and below impliedVolatility - 0.10.
C5_CrushFlagIffSetAndBelow ==
    pc = "idle" =>
        (isIvCrush <=>
            \E i \in 1..Len(options) :
                /\ options[i].target_iv # EmptyStr
                /\ options[i].target_iv < options[i].iv - 100000)

\* C6: every chart point has exactly one field per contract, keyed by label
\* and strike, and its value is the roi of that contract in the details of the
\* same offset.
C6_OneFieldPerContract ==
    pc = "idle" =>
        \A i \in 1..Len(chartData) :
            /\ Len(chartData[i].series) = Len(options)
            /\ Len(groupedResults[i].details) = Len(options)
            /\ \A j \in 1..Len(options) :
                  /\ Cardinality({k \in 1..Len(chartData[i].series) :
                        chartData[i].series[k].key
                            = <<options[j].type, options[j].strike>>}) = 1
                  /\ \E m \in 1..Len(groupedResults[i].details) :
                        \A d \in {groupedResults[i].details[m]} :
                            /\ d.type = options[j].type
                            /\ d.strike = options[j].strike
                            /\ FieldOf(chartData[i], d) = d.roi

\* C6 witness: two contracts of equal strike have been projected, each with
\* its own field.
C6_Witness ==
    /\ pc = "idle"
    /\ Len(chartData) > 0
    /\ options[1].strike = options[2].strike
    /\ Len(chartData[1].series) = 3

\* C7: once the effect has run for the latest change, the derived state is
\* the projection of the current config and the current contract list alone.
C7_DerivedStateIsProjectionOfCurrentInputs ==
    pc = "idle" =>
        \A sorted \in {SortByStrike(options)} :
        \A p \in {calculateProjections(config, sorted)} :
            /\ isIvCrush = p.crushDetected
            /\ chartData = p.chartPoints
            /\ groupedResults = p.groupedData

\* C7 witness: the effect has run after both inputs were changed.
C7_Witness ==
    /\ pc = "idle"
    /\ config # DEFAULT_CONFIG
    /\ options # DEFAULT_OPTIONS
    /\ isIvCrush
    /\ Len(chartData) > 0

\* A contract list with other Greeks, and a config with another current price.
OtherGreeks(opts) ==
    [i \in 1..Len(opts) |->
        [opts[i] EXCEPT !.delta = 500000, !.gamma = 2000 * i, !.theta = -200000]]

OtherCurrentPrice(cfg) == [cfg EXCEPT !.CURRENT_PRICE = 100 * E6]

\* C8: the outputs are those of a run whose inputs differ only in
\* currentPrice, and of a run whose inputs differ only in the Greeks.
C8_IndependentOfCurrentPriceAndGreeks ==
    pc = "idle" =>
        \A run \in {<<OtherCurrentPrice(config), sortedOptions>>,
                    <<config, OtherGreeks(sortedOptions)>>} :
        \A p \in {calculateProjections(run[1], run[2])} :
            /\ isIvCrush = p.crushDetected
            /\ chartData = p.chartPoints
            /\ groupedResults = p.groupedData

\* C8 witness: a projection made after currentPrice was edited.
C8_Witness ==
    /\ pc = "idle"
    /\ config.CURRENT_PRICE = 350 * E6
    /\ config.TARGET_PRICE = 360 * E6
    /\ Len(chartData) = 12
    /\ chartData[1].price = 360 * E6

\* C9: for spot > 0 and strike > 0 and any rate and volatility, a call with
\* yearsToExpiry <= 0 returns exactly max(0, spot - strike) by the early
\* return, the time-dependent formula not being evaluated.
C9_IntrinsicAtOrPastExpiry ==
    (/\ call.fn = "blackScholesCall"
     /\ call.S > 0
     /\ call.K > 0
     /\ call.T <= 0)
        => /\ ret.branch = "intrinsic"
           /\ ret.value = IF call.S > call.K THEN call.S - call.K ELSE 0

\* C9 witness: a call at T = 0 with volatility 0 and the spot below the strike
\* has returned 0.
C9_Witness ==
    /\ call.fn = "blackScholesCall"
    /\ call.T = 0
    /\ call.sigma = 0
    /\ call.S < call.K
    /\ ret.value = 0

\* C10 (as claimed): erf(-x) = -erf(x) for every x, x = 0 included,
\* erf(0) = 0 and Phi(0) = 0.5.
C10_OddAndAnchoredAtZero ==
    /\ call.fn = "erf" =>
          /\ ret.negated = -ret.value
          /\ call.x = 0 => ret.value = 0
    /\ (call.fn = "standardNormalCDF" /\ call.x = 0) => ret.value = E9

\* C10 (amended): erf(-x) = -erf(x) for every x other than 0; at 0 both
\* erf(0) and erf(-0) are 1 - (a1 + a2 + a3 + a4 + a5) = 0.000000001, and
\* Phi(0) = 0.5000000005.
C10_OddAwayFromZero ==
    /\ (call.fn = "erf" /\ call.x # 0) => ret.negated = -ret.value
    /\ (call.fn = "erf" /\ call.x = 0) => (ret.value = 1 /\ ret.negated = 1)
    /\ (call.fn = "standardNormalCDF" /\ call.x = 0) => ret.value = E9 + 1

\* C10 witness: erf has been called at -1 and at 1, with opposite results.
C10_Witness ==
    /\ call.fn = "erf"
    /\ call.x = -E6
    /\ ret.value < 0
    /\ ret.negated = -ret.value

\* C11: for every retained offset d, daysRemaining = D - d is >= 0 and the
\* time passed to the pricing primitive is max(daysRemaining / 365, 0.0001),
\* strictly positive, so that no call of the projection takes the primitive's
\* intrinsic-value branch; at d = D the time passed is exactly 0.0001.
C11_TimePassedIsFlooredAndPositive ==
    pc = "idle" =>
        /\ call.fn = "calculateProjections"
        /\ Len(call.pricing) = Cardinality(RetainedOffsets) * Len(sortedOptions)
        /\ \A i \in 1..Len(call.pricing) :
              \A c \in {call.pricing[i]} :
                  /\ c.day \in RetainedOffsets
                  /\ c.daysRemaining = config.DAYS_TO_EXPIRY - c.day * E6
                  /\ c.daysRemaining >= 0
                  /\ c.T = IF Div6[c.daysRemaining, 365 * E6] >= 100
                           THEN Div6[c.daysRemaining, 365 * E6] ELSE 100
                  /\ c.T > 0
                  /\ c.branch = "formula"
                  /\ c.day * E6 = config.DAYS_TO_EXPIRY => c.T = 100

\* C11 witness: with daysToExpiry = 30 the offset 30 has been priced, with
\* zero days remaining and the time 0.0001.
C11_Witness ==
    /\ pc = "idle"
    /\ config.DAYS_TO_EXPIRY = 30 * E6
    /\ Len(call.pricing) = 3
    /\ call.pricing[1].day = 30
    /\ call.pricing[1].daysRemaining = 0
    /\ call.pricing[1].T = 100
    /\ call.pricing[1].branch = "formula"

\* The states in which the component has rendered: the render committed
\* before the effect runs (pc = "effect") and the one after it (pc = "idle").
Rendered == pc \in {"effect", "idle"}

\* C12 (as claimed): in every rendered state, the render between an edit and
\* the re-run of the effect included, every table row has as many detail cells
\* as there are sorted contracts, and the i-th detail has the label and the
\* strike of the i-th sorted contract.
C12_TableAlignedInEveryRender ==
    Rendered =>
        \A i \in 1..Len(groupedResults) :
            /\ Len(groupedResults[i].details) = Len(sortedOptions)
            /\ \A j \in 1..Len(sortedOptions) :
                  /\ groupedResults[i].details[j].type = sortedOptions[j].type
                  /\ groupedResults[i].details[j].strike = sortedOptions[j].strike

\* The fields of a contract.
ContractFields ==
    {"id", "type", "strike", "ask", "iv", "target_iv", "delta", "gamma", "theta"}

\* The ids of a contract list, in the order of the list.
IdsOf(opts) == [k \in 1..Len(opts) |-> opts[k].id]

\* C13: a step that changes the contract list is an edit
\* handleOptionChange(id, field, value) that changes at most the named field of
\* the contract with that id and leaves every other contract, every other
\* field, the stored order and the market config unchanged; a step that
\* changes the config leaves the contract list unchanged; rendering (the sort
\* for display) changes neither; the number of contracts and their ids never
\* change.
C13_EditChangesOnlyTheNamedField ==
    [][/\ options' # options =>
              /\ pc = "idle"
              /\ config' = config
              /\ \E in \in OptionInputs :
                    \A k \in 1..Len(options) :
                        IF options[k].id = in[1]
                        THEN \A g \in ContractFields \ {in[2]} :
                                 options'[k][g] = options[k][g]
                        ELSE options'[k] = options[k]
       /\ config' # config => options' = options
       /\ pc # "idle" => (options' = options /\ config' = config)
       /\ Len(options') = Len(options)
       /\ IdsOf(options') = IdsOf(options)]_vars

\* C13 witness: the strike of contract 1 has been edited to 500 and the list
\* rendered: the display order is 2, 3, 1, the stored order still 1, 2, 3, the
\* other fields and contracts and the config as they were.
C13_Witness ==
    /\ pc = "effect"
    /\ options[1] = [DEFAULT_OPTIONS[1] EXCEPT !.strike = 500 * E6]
    /\ options[2] = DEFAULT_OPTIONS[2]
    /\ options[3] = DEFAULT_OPTIONS[3]
    /\ IdsOf(options) = <<1, 2, 3>>
    /\ IdsOf(sortedOptions) = <<2, 3, 1>>
    /\ config = DEFAULT_CONFIG

====
